---- MODULE Spec2Model ----
(***************************************************************************)
(* Model of the replicated file store: three Server replicas, the          *)
(* DistributedFileSystem coordinator (quorum write, nearest-replica read)  *)
(* and Client devices with a local cache kept coherent by pushed           *)
(* invalidations.  Every public operation of the program is synchronous    *)
(* and single-threaded, so each is one atomic action.                      *)
(***************************************************************************)
EXTENDS Integers, Sequences, FiniteSets, TLC

\* ---------------------------------------------------------------- bounds
\* at most this many committed quorum writes in one behaviour
MaxWrites == 2

\* ------------------------------------------------------------- topology
NEW_YORK == "New York"
TORONTO == "Toronto"
LONDON == "London"

DataCenter == {NEW_YORK, TORONTO, LONDON}

\* enumeration order of DistributedFileSystem.servers_by_dc
get_all_servers == <<NEW_YORK, TORONTO, LONDON>>

primary_table ==
    ("file1.txt" :> NEW_YORK) @@ ("file2.txt" :> TORONTO) @@ ("file3.txt" :> LONDON)

Files == DOMAIN primary_table

\* a file name that has no entry in primary_table
UnassignedName == "file9.txt"

Names == Files \cup {UnassignedName}

preferred_dc == ("Alice" :> NEW_YORK) @@ ("Bob" :> LONDON)

Clients == DOMAIN preferred_dc

\* the content every replica is bootstrapped with, and the contents written
InitialContent == "Initial content"

\* the content of the k-th committed write: every write of a behaviour carries
\* a content no earlier write carried
NewContents == <<"update 1", "update 2", "update 3", "update 4", "update 5">>

\* ------------------------------------------------------ values and None
\* Python's None for an Optional[FileVersion]
None == [content |-> "None", version |-> 0]

FileVersion(content, version) == [content |-> content, version |-> version]

\* no entry under this key in Client.cache
NoEntry == [content |-> "None", version |-> 0, valid |-> FALSE]

CacheEntry(content, version) ==
    [content |-> content, version |-> version, valid |-> TRUE]

VARIABLES
    files,            \* files[dc][f]: Server.files of the server at dc
    alive,            \* alive[dc]: Server.alive
    cache_listeners,  \* cache_listeners[dc][f]: Server._cache_listeners, a list of clients
    cache,            \* cache[c][f]: Client.cache
    writes,           \* number of committed quorum writes so far
    focus,            \* the file the clients of this behaviour work on
    wr,               \* wr[w]: where thread w is in its write_file_with_quorum call, and its locals
    expect,           \* expect[c][f]: content written to f since c's cache was populated by a read
    last              \* the last operation, its arguments, its outcome and what it observed

vars == <<files, alive, cache_listeners, cache, writes, focus, wr, expect, last>>

\* ---------------------------------------------------------------- Server
\* Server.read_file without the availability test
Server_read_file_IgnoringDown(fs, up, name) == fs[name]

\* Server.read_file on a server whose files are fs and whose alive flag is up
Server_read_file(fs, up, name) ==
    IF ~up THEN None ELSE fs[name]

\* Server.apply_update: the files of the server afterwards
apply_update(fs, up, name, new_content, new_version) ==
    IF ~up THEN fs
    ELSE IF fs[name] # None
         THEN [fs EXCEPT ![name].content = new_content, ![name].version = new_version]
         ELSE [fs EXCEPT ![name] = FileVersion(new_content, new_version)]

InList(cb, listeners) == \E i \in DOMAIN listeners : listeners[i] = cb

\* Server.register_cache_listener without the membership test
register_cache_listener_NoCheck(listeners, callback) == Append(listeners, callback)

\* Server.register_cache_listener: the listener list for the file afterwards
register_cache_listener(listeners, callback) ==
    IF ~InList(callback, listeners) THEN Append(listeners, callback) ELSE listeners

\* Client.invalidate_cache_entry that leaves the entry as it is
invalidate_cache_entry_Noop(entry) == entry

\* Client.invalidate_cache_entry on one cache entry
invalidate_cache_entry(entry) ==
    IF entry # NoEntry THEN [entry EXCEPT !.valid = FALSE] ELSE entry

\* Server.invalidate_caches: the clients' caches after every callback in the list ran
RECURSIVE invalidate_caches(_, _, _)
invalidate_caches(listeners, caches, file_name) ==
    IF listeners = <<>> THEN caches
    ELSE invalidate_caches(Tail(listeners),
             [caches EXCEPT ![Head(listeners)][file_name] = invalidate_cache_entry(@)],
             file_name)

\* how many times Server.invalidate_caches invokes the callback of client cl
Invocations(listeners, cl) == Cardinality({i \in DOMAIN listeners : listeners[i] = cl})

\* ------------------------------------------------- DistributedFileSystem
NoServer == "None"

\* the KeyError of primary_table[file_name]
KeyError == "KeyError"

\* get_primary_server with a default server for unknown names
get_primary_server_Default(file_name) ==
    IF file_name \in DOMAIN primary_table THEN primary_table[file_name] ELSE NEW_YORK

\* DistributedFileSystem.get_primary_server: the primary's site, or KeyError
get_primary_server(file_name) ==
    IF file_name \in DOMAIN primary_table THEN primary_table[file_name] ELSE KeyError

RECURSIVE FirstAvailable(_, _)
FirstAvailable(ss, up) ==
    IF ss = <<>> THEN NoServer
    ELSE IF up[Head(ss)] THEN Head(ss) ELSE FirstAvailable(Tail(ss), up)

\* get_best_server_for_read without the availability test on the preferred server
get_best_server_for_read_Unchecked(preferred, up) ==
    IF preferred \in DataCenter THEN preferred
    ELSE FirstAvailable(get_all_servers, up)

get_best_server_for_read(preferred, up) ==
    IF preferred \in DataCenter /\ up[preferred] THEN preferred
    ELSE FirstAvailable(get_all_servers, up)

\* DistributedFileSystem.read_file: whether it raises "No replica available to
\* serve read", and otherwise what the chosen server's read_file returns
dfs_read_file(file_name, preferred) ==
    LET server == get_best_server_for_read(preferred, alive)
    IN  IF server = NoServer
        THEN [raised |-> TRUE, fv |-> None]
        ELSE [raised |-> FALSE,
              fv |-> Server_read_file(files[server], alive[server], file_name)]

\* the quorum test with the threshold off by one
QuorumNotSatisfied_OffByOne(quorum_size) == quorum_size < 1

\* the quorum test requiring every replica
QuorumNotSatisfied_AllRequired(quorum_size) == quorum_size < 3

\* the quorum test of write_file_with_quorum: TRUE when the write is aborted
QuorumNotSatisfied(quorum_size) == quorum_size < 2

\* DistributedFileSystem.write_file_with_quorum on an assigned file: what it
\* returns, the replicas' files and the clients' caches afterwards, and how
\* often each client's callback was invoked
write_file_with_quorum(file_name, new_content) ==
    LET primary == get_primary_server(file_name)
        available_servers == {s \in DataCenter : alive[s]}
        quorum_size == Cardinality(available_servers)
        current == Server_read_file(files[primary], alive[primary], file_name)
        current_version == IF current # None THEN current.version ELSE 0
        new_version == current_version + 1
        updated == [s \in DataCenter |->
                      IF s = primary
                      THEN apply_update(files[s], alive[s], file_name, new_content, new_version)
                      ELSE IF alive[s]
                           THEN apply_update(files[s], alive[s], file_name, new_content, new_version)
                           ELSE files[s]]
        listeners == cache_listeners[primary][file_name]
    IN  IF primary = KeyError
        THEN [raised |-> TRUE, ok |-> FALSE, files |-> files, caches |-> cache,
              delivered |-> [cl \in Clients |-> 0]]
        ELSE IF QuorumNotSatisfied(quorum_size)
        THEN [raised |-> FALSE, ok |-> FALSE, files |-> files, caches |-> cache,
              delivered |-> [cl \in Clients |-> 0]]
        ELSE [raised |-> FALSE, ok |-> TRUE, files |-> updated,
              caches |-> invalidate_caches(listeners, cache, file_name),
              delivered |-> [cl \in Clients |-> Invocations(listeners, cl)]]

\* ---------------------------------------------------------------- Client
\* Client.write_file without the early return on failure
CacheAfterWrite_Speculative(entry, success, fv) ==
    IF fv = None THEN entry ELSE CacheEntry(fv.content, fv.version)

\* Client.write_file after the coordinator answered: the writer's cache entry
CacheAfterWrite(entry, success, fv) ==
    IF ~success THEN entry
    ELSE IF fv = None THEN entry
    ELSE CacheEntry(fv.content, fv.version)

\* the cache test of Client.read_file without the version comparison
CacheUsable_FlagOnly(entry, primary_version_number) ==
    entry # NoEntry /\ entry.valid

\* the cache test of Client.read_file: TRUE when the entry is served
CacheUsable(entry, primary_version_number) ==
    entry # NoEntry /\ entry.valid /\ entry.version = primary_version_number

\* Client.read_file registering at the server that answered the refresh
RegisterAt_Serving(primary, server) == server

\* the server Client.read_file registers its callback at
RegisterAt(primary, server) == primary

NoExpect == "None"

\* the threads that call write_file_with_quorum step by step
Writers == {"w1", "w2"}

\* a thread that has not called write_file_with_quorum
NotCalled ==
    [pc |-> "idle", file_name |-> "None", new_content |-> "None", new_version |-> 0, next |-> 0]

\* the record of an operation that observed and changed nothing
Idle ==
    [op |-> "init", client |-> "None", file |-> "None", content |-> "None",
     result |-> "None", ret |-> "None", hit |-> FALSE, prevVersion |-> 0,
     cached |-> "None", cachedVersion |-> 0, relisted |-> FALSE, raisedBy |-> "None", delivered |-> [cl \in Clients |-> 0],
     expect |-> NoExpect, filesChanged |-> FALSE, cachesChanged |-> FALSE]

\* ------------------------------------------------------------------ Init
\* build_system: every replica up, no listener, no client cache; every file
\* of a chosen set is stored at version 1 on all three replicas
Init ==
    /\ focus \in Files
    /\ \E loaded \in {Files, Files \ {focus}} :
         files = [s \in DataCenter |-> [f \in Names |->
                    IF f \in loaded THEN FileVersion(InitialContent, 1) ELSE None]]
    /\ alive = [s \in DataCenter |-> TRUE]
    /\ cache_listeners = [s \in DataCenter |-> [f \in Names |-> <<>>]]
    /\ cache = [c \in Clients |-> [f \in Names |-> NoEntry]]
    /\ writes = 0
    /\ wr = [w \in Writers |-> NotCalled]
    /\ expect = [c \in Clients |-> [f \in Names |-> NoExpect]]
    /\ last = Idle

\* --------------------------------------------------------------- actions
bring_down(s) ==
    /\ alive' = [alive EXCEPT ![s] = FALSE]
    /\ last' = [Idle EXCEPT !.op = "bring_down"]
    /\ UNCHANGED <<files, cache_listeners, cache, writes, focus, wr, expect>>

bring_up(s) ==
    /\ alive' = [alive EXCEPT ![s] = TRUE]
    /\ last' = [Idle EXCEPT !.op = "bring_up"]
    /\ UNCHANGED <<files, cache_listeners, cache, writes, focus, wr, expect>>

\* Client.read_file
read_file(c, file_name) ==
    LET primary == get_primary_server(file_name)
        primary_version == Server_read_file(files[primary], alive[primary], file_name)
        primary_version_number ==
            IF primary_version # None THEN primary_version.version ELSE 0
        entry == cache[c][file_name]
        server == get_best_server_for_read(preferred_dc[c], alive)
        fetched == dfs_read_file(file_name, preferred_dc[c])
        replica_file == fetched.fv
        seen == [Idle EXCEPT !.op = "read", !.client = c, !.file = file_name,
                             !.cached = IF entry # NoEntry /\ entry.valid
                                        THEN entry.content ELSE "None",
                             !.cachedVersion = IF entry # NoEntry /\ entry.valid
                                               THEN entry.version ELSE 0,
                             !.expect = expect[c][file_name]]
    IN  IF primary = KeyError
        THEN \* get_primary_server raised before anything else ran
             /\ last' = [Idle EXCEPT !.op = "read", !.file = file_name,
                                     !.result = KeyError]
             /\ UNCHANGED <<files, alive, cache_listeners, cache, writes, focus, wr, expect>>
        ELSE IF CacheUsable(entry, primary_version_number)
        THEN \* served from the cache
             /\ last' = [seen EXCEPT !.result = "ok", !.ret = entry.content, !.hit = TRUE]
             /\ expect' = [expect EXCEPT ![c][file_name] = NoExpect]
             /\ UNCHANGED <<files, alive, cache_listeners, cache, writes, focus, wr>>
        ELSE IF fetched.raised \/ replica_file = None
        THEN \* RuntimeError of dfs.read_file, or of the client
             /\ last' = [seen EXCEPT !.result = "RuntimeError",
                                     !.raisedBy = IF fetched.raised THEN "dfs" ELSE "client"]
             /\ UNCHANGED <<files, alive, cache_listeners, cache, writes, focus, wr, expect>>
        ELSE \* refreshed from the chosen replica
             /\ cache' = [cache EXCEPT ![c][file_name] =
                              CacheEntry(replica_file.content, replica_file.version)]
             /\ cache_listeners' =
                    [cache_listeners EXCEPT ![RegisterAt(primary, server)][file_name] =
                              register_cache_listener(@, c)]
             /\ last' = [seen EXCEPT !.result = "ok", !.ret = replica_file.content,
                                     !.relisted = InList(c, cache_listeners[primary][file_name]),
                                     !.cachesChanged = (cache' # cache)]
             /\ expect' = [expect EXCEPT ![c][file_name] = NoExpect]
             /\ UNCHANGED <<files, alive, writes, focus, wr>>

\* Client.write_file
write_file(c, file_name, new_content) ==
    LET primary == get_primary_server(file_name)
        w == write_file_with_quorum(file_name, new_content)
        fv == Server_read_file(w.files[primary], alive[primary], file_name)
        seen == [Idle EXCEPT !.op = "write", !.client = c, !.file = file_name,
                             !.content = IF w.ok THEN new_content ELSE "None",
                             !.prevVersion = files[primary][file_name].version]
    IN  IF w.raised
        THEN \* get_primary_server raised inside write_file_with_quorum
             /\ last' = [Idle EXCEPT !.op = "write", !.file = file_name,
                                     !.result = KeyError]
             /\ UNCHANGED <<files, alive, cache_listeners, cache, writes, focus, wr, expect>>
        ELSE
        /\ w.ok => writes < MaxWrites
        /\ files' = w.files
        /\ cache' = [w.caches EXCEPT ![c][file_name] = CacheAfterWrite(@, w.ok, fv)]
        /\ writes' = IF w.ok THEN writes + 1 ELSE writes
        /\ expect' = IF w.ok
                     THEN [cl \in Clients |-> [f \in Names |->
                             IF f = file_name /\ InList(cl, cache_listeners[primary][f])
                             THEN new_content ELSE expect[cl][f]]]
                     ELSE expect
        /\ last' = [seen EXCEPT !.result = IF w.ok THEN "ok" ELSE "fail",
                                !.delivered = w.delivered,
                                !.filesChanged = (files' # files),
                                !.cachesChanged = (cache' # cache)]
        /\ UNCHANGED <<alive, cache_listeners, focus, wr>>

\* Client.read_file and Client.write_file on a name without primary
UnassignedRead(c) == read_file(c, UnassignedName)

UnassignedWrite(c, x) == write_file(c, UnassignedName, x)

Next ==
    \/ \E s \in DataCenter : bring_down(s)
    \/ \E s \in DataCenter : bring_up(s)
    \/ \E c \in Clients : read_file(c, focus)
    \/ \E c \in Clients : write_file(c, focus, NewContents[writes + 1])
    \/ \E c \in Clients : UnassignedRead(c)
    \/ \E c \in Clients : UnassignedWrite(c, NewContents[writes + 1])

Spec == Init /\ [][Next]_vars

\* build_system as main.py runs it: every file stored at version 1 on all
\* three replicas
InitLoaded ==
    /\ Init
    /\ \A s \in DataCenter, f \in Files : files[s][f] = FileVersion(InitialContent, 1)

SpecLoaded == InitLoaded /\ [][Next]_vars


\* ------------------------------------------- write_file_with_quorum by steps
\* thread w is inside write_file_with_quorum
InFlight(w) == wr[w].pc \in {"read", "primary", "push", "invalidate", "return"}

Quiet == \A w \in Writers : ~InFlight(w)

\* dfs.py 58-66: look up the primary, count the available servers, abort
\* without a quorum
W_Begin(w) ==
    /\ wr[w].pc = "idle"
    /\ writes < MaxWrites
    /\ writes' = writes + 1
    /\ LET quorum_size == Cardinality({s \in DataCenter : alive[s]})
       IN  wr' = [wr EXCEPT ![w] =
                    [NotCalled EXCEPT !.pc = IF QuorumNotSatisfied(quorum_size)
                                             THEN "aborted" ELSE "read",
                                      !.file_name = focus,
                                      !.new_content = NewContents[writes + 1]]]
    /\ UNCHANGED <<files, alive, cache_listeners, cache, focus, expect, last>>

\* the call of a program in which one call runs at a time
W_BeginAlone(w) == Quiet /\ W_Begin(w)

\* dfs.py 69-71: read the primary's current version, compute new_version
W_ReadVersion(w) ==
    /\ wr[w].pc = "read"
    /\ LET primary == get_primary_server(wr[w].file_name)
           current == Server_read_file(files[primary], alive[primary], wr[w].file_name)
           current_version == IF current # None THEN current.version ELSE 0
       IN  wr' = [wr EXCEPT ![w].pc = "primary", ![w].new_version = current_version + 1]
    /\ UNCHANGED <<files, alive, cache_listeners, cache, writes, focus, expect, last>>

\* dfs.py 74: update the primary
W_ApplyPrimary(w) ==
    /\ wr[w].pc = "primary"
    /\ LET primary == get_primary_server(wr[w].file_name)
       IN  files' = [files EXCEPT ![primary] =
                        apply_update(@, alive[primary], wr[w].file_name,
                                     wr[w].new_content, wr[w].new_version)]
    /\ wr' = [wr EXCEPT ![w].pc = "push", ![w].next = 1]
    /\ UNCHANGED <<alive, cache_listeners, cache, writes, focus, expect, last>>

\* dfs.py 77-79: one iteration of the loop over get_all_servers
W_Push(w) ==
    /\ wr[w].pc = "push"
    /\ LET primary == get_primary_server(wr[w].file_name)
           replica == get_all_servers[wr[w].next]
       IN  files' = IF replica # primary /\ alive[replica]
                    THEN [files EXCEPT ![replica] =
                             apply_update(@, alive[replica], wr[w].file_name,
                                          wr[w].new_content, wr[w].new_version)]
                    ELSE files
    /\ wr' = IF wr[w].next = Len(get_all_servers)
             THEN [wr EXCEPT ![w].pc = "invalidate", ![w].next = 0]
             ELSE [wr EXCEPT ![w].next = @ + 1]
    /\ UNCHANGED <<alive, cache_listeners, cache, writes, focus, expect, last>>

\* dfs.py 82: the primary pushes the invalidations
W_Invalidate(w) ==
    /\ wr[w].pc = "invalidate"
    /\ LET primary == get_primary_server(wr[w].file_name)
       IN  cache' = invalidate_caches(cache_listeners[primary][wr[w].file_name],
                                      cache, wr[w].file_name)
    /\ wr' = [wr EXCEPT ![w].pc = "return"]
    /\ UNCHANGED <<files, alive, cache_listeners, writes, focus, expect, last>>

\* dfs.py 84-85: return True
W_Return(w) ==
    /\ wr[w].pc = "return"
    /\ wr' = [wr EXCEPT ![w].pc = "committed"]
    /\ UNCHANGED <<files, alive, cache_listeners, cache, writes, focus, expect, last>>

\* between two calls of a single-threaded program
Q_bring_down(s) == Quiet /\ bring_down(s)

Q_bring_up(s) == Quiet /\ bring_up(s)

Q_read_file(c) == Quiet /\ read_file(c, focus)

\* the program as it runs: one write_file_with_quorum call at a time, seen
\* statement by statement
NextSteps ==
    \/ \E s \in DataCenter : Q_bring_down(s)
    \/ \E s \in DataCenter : Q_bring_up(s)
    \/ \E c \in Clients : Q_read_file(c)
    \/ \E w \in Writers : W_BeginAlone(w)
    \/ \E w \in Writers : W_ReadVersion(w)
    \/ \E w \in Writers : W_ApplyPrimary(w)
    \/ \E w \in Writers : W_Push(w)
    \/ \E w \in Writers : W_Invalidate(w)
    \/ \E w \in Writers : W_Return(w)

SpecSteps == InitLoaded /\ [][NextSteps]_vars

\* two threads calling write_file_with_quorum, interleaved statement by
\* statement
NextConcurrent ==
    \/ \E s \in DataCenter : Q_bring_down(s)
    \/ \E s \in DataCenter : Q_bring_up(s)
    \/ \E c \in Clients : Q_read_file(c)
    \/ \E w \in Writers : W_Begin(w)
    \/ \E w \in Writers : W_ReadVersion(w)
    \/ \E w \in Writers : W_ApplyPrimary(w)
    \/ \E w \in Writers : W_Push(w)
    \/ \E w \in Writers : W_Invalidate(w)
    \/ \E w \in Writers : W_Return(w)

SpecConcurrent == InitLoaded /\ [][NextConcurrent]_vars

\* ---------------------------------------------------------------- claims
Available == {s \in DataCenter : alive[s]}

\* the last operation was a quorum write on an assigned file that returned True
WriteCommitted == last.op = "write" /\ last.result = "ok"

\* the last operation was a quorum write on an assigned file that returned False
WriteAborted == last.op = "write" /\ last.result = "fail"

\* the last operation was a client read of an assigned file
ReadDone == last.op = "read" /\ last.file \in Files

PrimaryOfLast == primary_table[last.file]

\* C1: after a write that returned True, the primary's stored version of the
\* file is its version before the call plus 1 (absent counts as 0).
C1_PrimaryVersionPlusOne ==
    WriteCommitted =>
        files[PrimaryOfLast][last.file].version = last.prevVersion + 1

\* C2: after a write that returned True, every replica that was available
\* during the call stores the same (content, version) as the primary.
C2_AvailableReplicasMatchPrimary ==
    WriteCommitted =>
        \A s \in Available : files[s][last.file] = files[PrimaryOfLast][last.file]

\* C3: a write called with fewer than 2 available replicas returns False,
\* changes no replica's files and delivers no invalidation to any client.
C3_NoQuorumNoChange ==
    (last.op = "write" /\ last.file \in Files /\ Cardinality(Available) < 2) =>
        /\ last.result = "fail"
        /\ ~last.filesChanged
        /\ \A cl \in Clients : last.delivered[cl] = 0

\* a write aborted although the primary was up and had subscribers to notify
C3_Witness ==
    /\ WriteAborted
    /\ alive[PrimaryOfLast]
    /\ cache_listeners[PrimaryOfLast][last.file] # <<>>
    /\ \E cl \in Clients : cache[cl][last.file].valid

\* C4: a read that returns a value, by a client whose cache a read had
\* populated and with a committed write to the file since the client's last
\* read, returns the content of the latest such write.
C4_CacheCoherence ==
    (ReadDone /\ last.result = "ok" /\ last.expect # NoExpect) =>
        last.ret = last.expect

\* C5: no step decreases the version of any file stored on any replica.
C5_VersionNeverDecreases ==
    [][\A s \in DataCenter, f \in Files :
          files'[s][f].version >= files[s][f].version]_vars

\* C6: after a client's write that returned True, the writer's cache entry is
\* valid, holds the written content and has the version the primary stores.
C6_WriterSeesOwnWrite ==
    WriteCommitted =>
        LET e == cache[last.client][last.file]
        IN  /\ e.valid
            /\ e.content = last.content
            /\ e.version = files[PrimaryOfLast][last.file].version

\* C7 as stated: with the primary unavailable, a read by a client holding a
\* valid cache entry does not fail and returns the cached content.
C7_ServedFromCacheWhenPrimaryDown ==
    (ReadDone /\ ~alive[PrimaryOfLast] /\ last.cached # "None") =>
        /\ last.result = "ok"
        /\ last.ret = last.cached

\* the replica Client.read_file refreshes from in the current availability
RefreshServer == get_best_server_for_read(preferred_dc[last.client], alive)

\* C7 amended: with the primary unavailable the read takes the primary's
\* version as 0, so it never answers from the cache: it succeeds exactly when
\* the replica chosen by get_best_server_for_read exists and stores the file,
\* and then returns and caches that replica's (content, version).
C7_PrimaryDownReadRefreshes ==
    (ReadDone /\ ~alive[PrimaryOfLast]) =>
        /\ ~last.hit
        /\ last.result = "ok" <=>
              (RefreshServer # NoServer /\ files[RefreshServer][last.file] # None)
        /\ last.result = "ok" =>
              /\ last.ret = files[RefreshServer][last.file].content
              /\ cache[last.client][last.file] =
                     CacheEntry(files[RefreshServer][last.file].content,
                                files[RefreshServer][last.file].version)
        /\ last.result # "ok" => last.result = "RuntimeError"

\* a client holding a valid entry read while the primary was down and was
\* answered by another replica
C7_Witness ==
    /\ ReadDone
    /\ ~alive[PrimaryOfLast]
    /\ last.cached # "None"
    /\ last.result = "ok"
    /\ RefreshServer # PrimaryOfLast

\* C8: a read of a file that some replica stores, by a client whose preferred
\* replica is unavailable while another replica is available, raises no error
\* and returns the content an available replica holds.
C8_ReadFallback ==
    (/\ ReadDone
     /\ ~alive[preferred_dc[last.client]]
     /\ Available # {}
     /\ \E s \in DataCenter : files[s][last.file] # None) =>
        /\ last.result = "ok"
        /\ \E s \in Available :
              files[s][last.file] # None /\ files[s][last.file].content = last.ret

\* C9: a write that returned False leaves every client's cache as it was.
C9_FailedWriteKeepsCaches ==
    WriteAborted => ~last.cachesChanged

\* a write aborted while the writer's cache differed from what the primary,
\* which was up, stores
C9_Witness ==
    /\ WriteAborted
    /\ alive[PrimaryOfLast]
    /\ files[PrimaryOfLast][last.file] # None
    /\ cache[last.client][last.file] #
           CacheEntry(files[PrimaryOfLast][last.file].content,
                      files[PrimaryOfLast][last.file].version)

\* C10: a replica lists a client at most once per file however often the
\* client registers, and a push invokes the callback of every listed client
\* exactly once (and of no other client).
C10_IdempotentSubscribe ==
    /\ \A s \in DataCenter, f \in Files, cl \in Clients :
          Invocations(cache_listeners[s][f], cl) <= 1
    /\ WriteCommitted =>
          \A cl \in Clients :
              last.delivered[cl] =
                  IF InList(cl, cache_listeners[PrimaryOfLast][last.file]) THEN 1 ELSE 0

\* a client that was already listed refreshed the file and registered again
C10_Witness ==
    /\ ReadDone
    /\ last.relisted
    /\ Invocations(cache_listeners[PrimaryOfLast][last.file], last.client) = 1

\* C11: a replica has subscribers for a file only if it is the file's primary.
C11_SubscribersOnlyAtPrimary ==
    \A s \in DataCenter, f \in Files :
        cache_listeners[s][f] # <<>> => s = primary_table[f]

\* a client refreshed from a replica that is not the primary and is now
\* listed at the primary
C11_Witness ==
    /\ ReadDone
    /\ last.result = "ok"
    /\ ~last.hit
    /\ RefreshServer # PrimaryOfLast
    /\ InList(last.client, cache_listeners[PrimaryOfLast][last.file])

\* the version the primary reports for the file of the last operation
PrimaryVersionNow ==
    IF alive[PrimaryOfLast] THEN files[PrimaryOfLast][last.file].version ELSE 0

\* C12: a read is answered from the cache, without any fetch and without
\* touching the cache, exactly when the client held a valid entry whose
\* version equals the version the primary reports (0 if it is down or lacks
\* the file).
C12_CacheHitIffValidAndCurrent ==
    ReadDone =>
        /\ last.hit <=> (last.cached # "None" /\ last.cachedVersion = PrimaryVersionNow)
        /\ last.hit => /\ last.result = "ok"
                       /\ last.ret = last.cached
                       /\ ~last.cachesChanged
                       /\ ~last.relisted

\* a client that held a valid entry (no push reached it) was not served from
\* it because the primary, which is up, reports another version
C12_Witness ==
    /\ ReadDone
    /\ ~last.hit
    /\ last.cached # "None"
    /\ alive[PrimaryOfLast]
    /\ last.cachedVersion # PrimaryVersionNow

\* the first available replica in the order New York, Toronto, London
FirstUpInOrder ==
    IF alive[NEW_YORK] THEN NEW_YORK
    ELSE IF alive[TORONTO] THEN TORONTO
    ELSE IF alive[LONDON] THEN LONDON
    ELSE NoServer

\* C13: get_best_server_for_read(p) is the replica at p if it is available,
\* otherwise the first available replica in the order New York, Toronto,
\* London, and None exactly when no replica is available; it is never an
\* unavailable replica; the coordinator's read raises exactly when it is None.
C13_BestServerForRead ==
    /\ \A p \in DataCenter :
          LET r == get_best_server_for_read(p, alive)
          IN  /\ alive[p] => r = p
              /\ ~alive[p] => r = FirstUpInOrder
              /\ r = NoServer <=> Available = {}
              /\ r # NoServer => alive[r]
    /\ (ReadDone /\ ~last.hit) => (last.raisedBy = "dfs" <=> Available = {})

\* a refresh fell back past the unavailable preferred replica and past
\* unavailable New York
C13_Witness ==
    /\ ReadDone
    /\ ~last.hit
    /\ last.result = "ok"
    /\ ~alive[preferred_dc[last.client]]
    /\ ~alive[NEW_YORK]
    /\ RefreshServer \in {TORONTO, LONDON}

\* C14: an operation on a name without primary fails with KeyError and
\* changes no replica's files, no subscriber list and no client cache.
C14_UnassignedNameFailsCleanly ==
    /\ [](last.file = UnassignedName => last.result = KeyError)
    /\ [][last'.file = UnassignedName =>
             /\ files' = files
             /\ cache_listeners' = cache_listeners
             /\ cache' = cache]_vars

\* a write on the unassigned name failed while a quorum was available and a
\* client held a cache entry and a subscription
C14_Witness ==
    /\ last.op = "write"
    /\ last.file = UnassignedName
    /\ last.result = KeyError
    /\ Cardinality(Available) >= 2
    /\ \E cl \in Clients :
          /\ cache[cl][focus] # NoEntry
          /\ InList(cl, cache_listeners[primary_table[focus]][focus])

\* C16: a write leaves the files of every secondary that is unavailable
\* during the call unchanged, returns True when the primary and one secondary
\* are available, and a replica's stored files change only in a committed
\* write during which it is available (never by bring_up or bring_down).
C16_UnavailableSecondarySkipped ==
    /\ []((last.op = "write" /\ last.file \in Files /\ alive[PrimaryOfLast]
             /\ Cardinality(Available) = 2) => last.result = "ok")
    /\ [][\A s \in DataCenter :
             /\ (last'.op = "write" /\ ~alive[s]) => files'[s] = files[s]
             /\ files'[s] # files[s] =>
                   (last'.op = "write" /\ last'.result = "ok" /\ alive[s])]_vars

\* a secondary skipped by a committed write is back up, every replica is
\* available, and it still stores an older version than the primary
C16_Witness ==
    /\ last.op = "bring_up"
    /\ Available = DataCenter
    /\ \E s \in DataCenter \ {primary_table[focus]} :
          files[s][focus].version < files[primary_table[focus]][focus].version

\* C18: two replicas that store the same version of a file store the same
\* content, and a read answered from the cache returns the content the
\* primary stores.
C18_VersionIdentifiesContent ==
    /\ \A f \in Files, s \in DataCenter, t \in DataCenter :
          (files[s][f] # None /\ files[t][f] # None
              /\ files[s][f].version = files[t][f].version)
          => files[s][f].content = files[t][f].content
    /\ (ReadDone /\ last.hit) =>
          last.ret = files[PrimaryOfLast][last.file].content

Listed(cl, f) == InList(cl, cache_listeners[primary_table[f]][f])

\* C19 as stated: every client holding a cache entry for a file is listed at
\* the file's primary, so a committed write leaves no other client with a
\* valid entry for the file.
C19_EveryCacheHolderSubscribed ==
    /\ \A cl \in Clients, f \in Files : cache[cl][f] # NoEntry => Listed(cl, f)
    /\ WriteCommitted =>
          \A cl \in Clients \ {last.client} :
              cache[cl][last.file] # NoEntry => ~cache[cl][last.file].valid

\* C19 amended: a client holding an entry is listed at the primary unless the
\* entry is one its own write_file created (valid, with written content), and
\* a committed write leaves every other listed client's entry invalid.
C19_CacheHoldersSubscribedUnlessWriters ==
    /\ \A cl \in Clients, f \in Files :
          cache[cl][f] # NoEntry =>
              \/ Listed(cl, f)
              \/ /\ cache[cl][f].valid
                 /\ \E k \in DOMAIN NewContents : cache[cl][f].content = NewContents[k]
    /\ WriteCommitted =>
          \A cl \in Clients \ {last.client} :
              (Listed(cl, last.file) /\ cache[cl][last.file] # NoEntry)
              => ~cache[cl][last.file].valid

\* a write committed that invalidated the listed other client's entry, while
\* the writer itself holds an entry without being listed
C19_Witness ==
    /\ WriteCommitted
    /\ ~Listed(last.client, last.file)
    /\ cache[last.client][last.file] # NoEntry
    /\ \E cl \in Clients \ {last.client} :
          /\ Listed(cl, last.file)
          /\ last.delivered[cl] = 1
          /\ cache[cl][last.file] # NoEntry
          /\ ~cache[cl][last.file].valid

\* C20: no secondary stores a greater version of a file than the file's
\* primary (absent counts as 0).
C20_PrimaryNeverBehind ==
    \A f \in Files, s \in DataCenter :
        files[s][f].version <= files[primary_table[f]][f].version

\* thread w updates a replica or invalidates caches in this step
Pushing(w) == wr[w].pc = "push" /\ wr'[w] # wr[w]

Invalidating(w) == wr[w].pc = "invalidate" /\ wr'[w] # wr[w]

\* C15: inside a write call the primary's stored version is advanced before
\* any secondary is updated, and callbacks are invoked only after every
\* available replica has the new version: a secondary is updated only to the
\* version the primary already stores, and no client is invalidated while an
\* available replica holds another version.
C15_PrimaryThenSecondariesThenInvalidate ==
    [][\A w \in Writers :
          LET f == wr[w].file_name
              primary == primary_table[f]
          IN  /\ Pushing(w) =>
                    \A s \in DataCenter \ {primary} :
                        files'[s][f] # files[s][f] =>
                            files[primary][f].version = wr[w].new_version
              /\ Invalidating(w) =>
                    \A s \in DataCenter :
                        alive[s] => files[s][f].version = wr[w].new_version]_vars

\* C17: two write calls on the same file that both have computed their
\* new_version never computed the same one.
C17_DistinctNewVersions ==
    \A a \in Writers, b \in Writers :
        (/\ a # b
         /\ wr[a].pc \in {"primary", "push", "invalidate", "return", "committed"}
         /\ wr[b].pc \in {"primary", "push", "invalidate", "return", "committed"}
         /\ wr[a].file_name = wr[b].file_name)
        => wr[a].new_version # wr[b].new_version

====
